---- MODULE Spec2Model ----
(***************************************************************************)
(* zoo-locked: the ZooKeeper try-lock of src/main.c.                       *)
(*                                                                         *)
(* Every process runs main(): directory bootstrap, then the lock loop of   *)
(* at most maxretry iterations (enumerate, look up or create the session's *)
(* candidate node, enumerate again, sort, child_floor, decide), then hold  *)
(* the lock or leave, and zookeeper_close.  The store is the LockPath      *)
(* directory, its children and its sequence counter.  Node names are       *)
(* sequences of character codes, so that strcmp, strncmp and strrchr work  *)
(* on them as they do in C.                                                *)
(*                                                                         *)
(* A store call that fails without touching the store (a connection loss   *)
(* inside retry_getchildren) commutes with every step of the other         *)
(* processes, so one retry_getchildren is one step, taken when its last    *)
(* zoo_get_children call is answered.                                      *)
(***************************************************************************)
EXTENDS Integers, Sequences, FiniteSets, TLC

VARIABLES
    dirExists,   \* the store: LockPath exists
    children,    \* the store: names of the children of LockPath
    nextSeq,     \* the store: next sequence number of LockPath
    pc,          \* per process: position in main()
    exists,      \* per process: main's variable exists (a result code)
    count,       \* per process: main's variable count
    id,          \* per process: main's variable id (NULL or a node name)
    ownerid,     \* per process: main's variable ownerid
    vector,      \* per process: the sorted vector of the last decision
    last_child,  \* per process: the path printed after "LOCKED: " (stdout)
    diag,        \* per process: the fatal diagnostic printed to stderr
    decision,    \* per process: branch taken at lines 289-298
    held,        \* per process: has reached sleep(10) at line 313
    rc,          \* per process: the exit code returned by main
    resolved,    \* per process: how id was obtained, lines 261-277
    lateCalls,   \* per process: store calls issued after the decision
    dirCreator,  \* the process whose zoo_create made LockPath, 0 for none
    budget,      \* number of store failures the environment may still inject
    creates,     \* per process: candidate creates issued since the current
                 \* iteration of the lock loop began
    ord          \* the argument and results of the pure functions when they
                 \* are exercised on their own

mainvars == << dirExists, children, nextSeq, pc, exists, count, id, ownerid,
               vector, last_child, diag, decision, held, rc, resolved,
               lateCalls, dirCreator, budget, creates >>

vars == << mainvars, ord, creates >>

----------------------------------------------------------------------------
(* Bounds of the model *)

\* total number of failing store operations over a behaviour
MaxFaults == 4
\* sequence counter of a LockPath that exists before the first process runs
StartSeq == 9
\* longest child vector given to sort_children and child_floor on their own
MaxOrdLen == 3
\* every sequence number up to this one is given to vstrcmp on its own
MaxPadVal == 30
\* number of failing store operations over a behaviour of FairSpec
FairFaults == 4

\* the racing processes
Procs == {1, 2}
\* a zoo-locked process outside the model whose candidate node is in
\* LockPath before the first process runs
Other == 0

----------------------------------------------------------------------------
(* Program constants *)

maxretry == 5
\* width of the session id in the prefix, "%016lx"
HexWidth == 16
\* width of the store's sequence suffix, "%010d"
SeqWidth == 10
\* return 0
ExitCode == 0

NULL == << >>

\* character codes
ChDash == 45
ChSlash == 47
ChX == 120
ChZero == 48
ChA == 97
ChL == 108

\* argv[2], the LockPath: "/l"
path == << ChSlash, ChL >>

\* zoo_client_id(zh)->client_id of each process's session
client_id(p) == CASE p = Other -> 1 [] p = 1 -> 9 [] p = 2 -> 10 [] OTHER -> 170 + p

----------------------------------------------------------------------------
(* C string functions on sequences of character codes *)

RECURSIVE strcmp(_, _)
strcmp(a, b) ==
    IF a = << >> /\ b = << >> THEN 0
    ELSE IF a = << >> THEN -1
    ELSE IF b = << >> THEN 1
    ELSE IF Head(a) < Head(b) THEN -1
    ELSE IF Head(a) > Head(b) THEN 1
    ELSE strcmp(Tail(a), Tail(b))

Min2(a, b) == IF a < b THEN a ELSE b

\* strncmp(a, b, n): compares at most the first n characters
strncmp(a, b, n) ==
    strcmp(SubSeq(a, 1, Min2(n, Len(a))), SubSeq(b, 1, Min2(n, Len(b))))

\* strrchr(s, c): index of the last c in s, 0 for a null pointer
strrchr(s, c) ==
    LET hits == { i \in 1..Len(s) : s[i] = c }
    IN  IF hits = {} THEN 0 ELSE CHOOSE i \in hits : \A j \in hits : j <= i

\* the text after position i
After(s, i) == SubSeq(s, i + 1, Len(s))

HexDigit(d) == IF d < 10 THEN ChZero + d ELSE ChA + (d - 10)

\* "%016lx": w lowercase hex digits, zero padded
RECURSIVE FormatHex(_, _)
FormatHex(n, w) ==
    IF w = 0 THEN << >>
    ELSE Append(FormatHex(n \div 16, w - 1), HexDigit(n % 16))

\* "%010d": w decimal digits, zero padded (the store's sequence suffix)
RECURSIVE FormatDec(_, _)
FormatDec(n, w) ==
    IF w = 0 THEN << >>
    ELSE Append(FormatDec(n \div 10, w - 1), ChZero + (n % 10))

\* snprintf(prefix, 30, "x-%016lx-", session)
Prefix(session) == << ChX, ChDash >> \o FormatHex(session, HexWidth) \o << ChDash >>

\* the name the store gives an ephemeral sequential node
SeqName(pfx, seq) == pfx \o FormatDec(seq, SeqWidth)

----------------------------------------------------------------------------
(* Pure functions of main.c *)

\* vstrcmp without the strrchr: strcmp of the whole names
vstrcmp_full(a, b) == strcmp(a, b)

\* vstrcmp: strcmp of the texts after the last '-'
vstrcmp(a, b) ==
    strcmp(After(a, strrchr(a, ChDash)), After(b, strrchr(b, ChDash)))

\* qsort with vstrcmp
RECURSIVE InsertSorted(_, _)
InsertSorted(s, x) ==
    IF s = << >> THEN << x >>
    ELSE IF vstrcmp(x, Head(s)) < 0 THEN << x >> \o s
    ELSE << Head(s) >> \o InsertSorted(Tail(s), x)

RECURSIVE sort_children(_)
sort_children(v) ==
    IF v = << >> THEN << >>
    ELSE CHOOSE sorted \in { InsertSorted(rest, Head(v)) :
                                rest \in { sort_children(Tail(v)) } } : TRUE

\* child_floor: the last element of sorted_data that strcmp puts below element
RECURSIVE FloorFrom(_, _, _, _)
FloorFrom(sorted_data, i, element, ret) ==
    IF i > Len(sorted_data) THEN ret
    ELSE FloorFrom(sorted_data, i + 1, element,
                   IF strcmp(sorted_data[i], element) < 0
                       THEN sorted_data[i] ELSE ret)

\* a floor that stops at the first element below element
child_floor_first(sorted_data, element) ==
    LET hits == { i \in 1..Len(sorted_data) : strcmp(sorted_data[i], element) < 0 }
    IN  IF hits = {} THEN NULL
        ELSE sorted_data[CHOOSE i \in hits : \A j \in hits : i <= j]

child_floor(sorted_data, element) == FloorFrom(sorted_data, 1, element, NULL)

\* getName: the text after the last '/'
getName(str) ==
    LET i == strrchr(str, ChSlash) IN IF i = 0 THEN NULL ELSE After(str, i)

\* a lookup that compares the whole name with the prefix
lookupnode_strcmp(v, prefix) ==
    LET hits == { i \in 1..Len(v) : strcmp(prefix, v[i]) = 0 }
    IN  IF hits = {} THEN NULL
        ELSE v[CHOOSE i \in hits : \A j \in hits : i <= j]

\* lookupnode: the first child that starts with prefix
lookupnode(v, prefix) ==
    LET hits == { i \in 1..Len(v) : strncmp(prefix, v[i], Len(prefix)) = 0 }
    IN  IF hits = {} THEN NULL
        ELSE v[CHOOSE i \in hits : \A j \in hits : i <= j]

\* retry_getchildren: resp is the store's answer to each successive
\* zoo_get_children call; the result is the last answer taken and the
\* number of calls made
RECURSIVE RetryLoop(_, _, _, _, _)
RetryLoop(resp, ret, cnt, ncalls, retry) ==
    IF ret = "ZCONNECTIONLOSS" /\ cnt < retry
        THEN LET r == resp[ncalls + 1]
             IN  RetryLoop(resp, r, IF r = "ZCONNECTIONLOSS" THEN cnt + 1 ELSE cnt,
                           ncalls + 1, retry)
        ELSE [ret |-> ret, ncalls |-> ncalls]

\* retry_getchildren with the loop test count <= retry
retry_getchildren_extra(resp, retry) ==
    RetryLoop(resp, "ZCONNECTIONLOSS", 0, 0, retry + 1)

retry_getchildren(resp, retry) == RetryLoop(resp, "ZCONNECTIONLOSS", 0, 0, retry)

\* the prefix of each session, computed once
PrefixOf == [p \in Procs \cup {Other} |-> Prefix(client_id(p))]

----------------------------------------------------------------------------
(* The store's answers *)

\* every order in which zoo_get_children may list the set S
RECURSIVE Perms(_)
Perms(S) ==
    IF S = {} THEN { << >> }
    ELSE UNION { { << x >> \o t : t \in Perms(S \ {x}) } : x \in S }

\* zoo_exists(path): <<result, is a failure>>
ExistsAnswers ==
    { << IF dirExists THEN "ZOK" ELSE "ZNONODE", 0 >>,
      << "ZCONNECTIONLOSS", 1 >>, << "ZNOAUTH", 1 >> }

\* zoo_create(path) of the directory: <<result, the create was applied,
\* is a failure>>; a connection loss may hide a create that was applied
DirCreateAnswers ==
    IF dirExists
        THEN { << "ZNODEEXISTS", FALSE, 0 >>, << "ZCONNECTIONLOSS", FALSE, 1 >>,
               << "ZNOAUTH", FALSE, 1 >> }
        ELSE { << "ZOK", TRUE, 0 >>, << "ZCONNECTIONLOSS", FALSE, 1 >>,
               << "ZCONNECTIONLOSS", TRUE, 1 >>, << "ZNOAUTH", FALSE, 1 >> }

\* zoo_get_children(path): the answers to the successive calls of one
\* retry_getchildren: k connection losses, then the answer f to every
\* later call
ChildrenAnswers ==
    LET normal == IF dirExists THEN "ZOK" ELSE "ZNONODE"
    IN  { << [i \in 1..maxretry |-> IF i <= k THEN "ZCONNECTIONLOSS" ELSE f],
             IF k = 0 /\ f = normal THEN 0 ELSE 1 >> :
          k \in 0..maxretry, f \in {normal, "ZNOAUTH"} }

\* one retry_getchildren(zh, path, vector, ts, maxretry) against the store:
\* <<result, number of zoo_get_children calls, is a failure>>
EnumOutcomes ==
    { LET res == retry_getchildren(a[1], maxretry)
      IN  << res.ret, res.ncalls, a[2] >> : a \in ChildrenAnswers }

\* zoo_create(path/prefix, EPHEMERAL|SEQUENCE): <<result, the create was
\* applied, is a failure>>
NodeCreateAnswers ==
    IF dirExists
        THEN { << "ZOK", TRUE, 0 >>, << "ZCONNECTIONLOSS", FALSE, 1 >>,
               << "ZCONNECTIONLOSS", TRUE, 1 >>, << "ZNOAUTH", FALSE, 1 >> }
        ELSE { << "ZNONODE", FALSE, 0 >>, << "ZCONNECTIONLOSS", FALSE, 1 >>,
               << "ZNOAUTH", FALSE, 1 >> }

\* the children of LockPath that belong to the session of p
NodesOf(p) ==
    { c \in children : strncmp(PrefixOf[p], c, Len(PrefixOf[p])) = 0 }

\* the candidate node of the process outside the model
OtherNode == SeqName(PrefixOf[Other], StartSeq - 1)

----------------------------------------------------------------------------
(* main() *)

OrdOff == [stage |-> "off", v |-> << >>, sorted |-> << >>, floors |-> << >>]

\* before the first process runs: LockPath is absent, or it exists and
\* holds the candidate node of a process outside the model; the store may
\* fail the given number of operations
InitWith(faults) ==
    /\ \/ dirExists = FALSE /\ nextSeq = 0 /\ children = {}
       \/ dirExists = TRUE /\ nextSeq = StartSeq /\ children = {OtherNode}
    /\ pc = [p \in Procs |-> "start"]
    /\ exists = [p \in Procs |-> "ZOK"]
    /\ count = [p \in Procs |-> 0]
    /\ id = [p \in Procs |-> NULL]
    /\ ownerid = [p \in Procs |-> NULL]
    /\ vector = [p \in Procs |-> << >>]
    /\ last_child = [p \in Procs |-> NULL]
    /\ diag = [p \in Procs |-> ""]
    /\ decision = [p \in Procs |-> "none"]
    /\ held = [p \in Procs |-> FALSE]
    /\ rc = [p \in Procs |-> -1]
    /\ resolved = [p \in Procs |-> "none"]
    /\ lateCalls = [p \in Procs |-> 0]
    /\ dirCreator = 0
    /\ budget = faults
    /\ creates = [p \in Procs |-> 0]

InitMain == InitWith(MaxFaults)

Init == InitMain /\ ord = OrdOff

\* a store operation that fails uses one unit of the failure budget
Fault(f) ==
    /\ f <= budget
    /\ budget' = budget - f

\* the ghost counter of store calls issued after the decision
Called(p, n) ==
    lateCalls' = [lateCalls EXCEPT ![p] = IF decision[p] = "none" THEN @ ELSE @ + n]

\* EnumResults without the test ret != ZOK of lines 255 and 280
EnumResults_Unchecked(p) ==
    { << TRUE, IF decision[p] = "none" THEN 0 ELSE o[2], o[3] >> :
      o \in EnumOutcomes }

\* what becomes of an enumeration: success or not, the calls that count for
\* lateCalls, the failure used
EnumResults(p) ==
    { << o[1] = "ZOK", IF decision[p] = "none" THEN 0 ELSE o[2], o[3] >> :
      o \in EnumOutcomes }

\* lines 223 and 232-238 with exists = ex and count = cnt: stay in the
\* bootstrap loop, give up, or enter the lock loop
BootNext(p, ex, cnt) ==
    /\ exists' = [exists EXCEPT ![p] = ex]
    /\ IF (ex = "ZCONNECTIONLOSS" \/ ex = "ZNONODE") /\ cnt < maxretry
           THEN /\ pc' = [pc EXCEPT ![p] = "bootloop"]
                /\ count' = [count EXCEPT ![p] = cnt]
                /\ diag' = diag
           ELSE IF cnt >= maxretry
               THEN /\ pc' = [pc EXCEPT ![p] = "exitnow"]
                    /\ count' = [count EXCEPT ![p] = cnt]
                    /\ diag' = [diag EXCEPT ![p] = "Could not create"]
               ELSE /\ pc' = [pc EXCEPT ![p] = "lock"]
                    /\ count' = [count EXCEPT ![p] = 0]
                    /\ diag' = diag

\* line 215: the first zoo_exists
Start(p) ==
    /\ pc[p] = "start"
    /\ \E a \in ExistsAnswers :
        /\ Fault(a[2])
        /\ BootNext(p, a[1], 0)
    /\ Called(p, 1)
    /\ UNCHANGED << dirExists, children, nextSeq, id, ownerid, vector,
                    last_child, decision, held, rc, resolved, dirCreator,
                    ord, creates >>

\* lines 224-228: a bootstrap iteration that repeats zoo_exists
BootExists(p) ==
    /\ pc[p] = "bootloop"
    /\ exists[p] = "ZCONNECTIONLOSS"
    /\ \E a \in ExistsAnswers :
        /\ Fault(a[2])
        /\ BootNext(p, a[1], count[p] + 1)
    /\ Called(p, 1)
    /\ UNCHANGED << dirExists, children, nextSeq, id, ownerid, vector,
                    last_child, decision, held, rc, resolved, dirCreator,
                    ord, creates >>

\* lines 224-230: a bootstrap iteration that issues zoo_create
BootCreate(p) ==
    /\ pc[p] = "bootloop"
    /\ exists[p] = "ZNONODE"
    /\ \E a \in DirCreateAnswers :
        /\ Fault(a[3])
        /\ dirExists' = (dirExists \/ a[2])
        /\ dirCreator' = IF a[2] THEN p ELSE dirCreator
        /\ BootNext(p, a[1], count[p] + 1)
    /\ Called(p, 1)
    /\ UNCHANGED << children, nextSeq, id, ownerid, vector,
                    last_child, decision, held, rc, resolved, ord, creates >>

\* Continue with the loop test count <= maxretry: a sixth iteration
Continue_Sixth(p, cnt) ==
    /\ count' = [count EXCEPT ![p] = cnt]
    /\ IF cnt <= maxretry
           THEN /\ pc' = [pc EXCEPT ![p] = "lock"]
                /\ diag' = diag
           ELSE /\ pc' = [pc EXCEPT ![p] = "exitnow"]
                /\ diag' = [diag EXCEPT ![p] = "Too many retries"]

\* Continue that forgets the count++ of line 240
Continue_Forever(p, cnt) ==
    /\ pc' = [pc EXCEPT ![p] = "lock"]
    /\ UNCHANGED << count, diag >>

\* Continue that gives up at once: goto exitnow in place of continue
Continue_Fatal(p, cnt) ==
    /\ count' = [count EXCEPT ![p] = cnt]
    /\ pc' = [pc EXCEPT ![p] = "exitnow"]
    /\ diag' = [diag EXCEPT ![p] = "Too many retries"]

\* "continue" at lines 258, 274, 283 with count = cnt, and lines 239 and
\* 303-306: the next iteration, or too many retries
Continue(p, cnt) ==
    /\ count' = [count EXCEPT ![p] = cnt]
    /\ IF cnt < maxretry
           THEN /\ pc' = [pc EXCEPT ![p] = "lock"]
                /\ diag' = diag
           ELSE /\ pc' = [pc EXCEPT ![p] = "exitnow"]
                /\ diag' = [diag EXCEPT ![p] = "Too many retries"]

\* lines 240-263 for one result r of retry_getchildren: count++, and on
\* success lookupnode
Enum1Step(p, r) ==
    /\ Fault(r[3])
    /\ lateCalls' = [lateCalls EXCEPT ![p] = @ + r[2]]
    /\ IF ~ r[1]
           THEN /\ Continue(p, count[p] + 1)
                /\ UNCHANGED << id, resolved >>
           ELSE \E found \in { lookupnode(v, PrefixOf[p]) :
                                v \in Perms(children) } :
                    /\ id' = [id EXCEPT ![p] = found]
                    /\ resolved' = [resolved EXCEPT ![p] =
                           IF found = NULL THEN "none" ELSE "reused"]
                    /\ count' = [count EXCEPT ![p] = @ + 1]
                    /\ pc' = [pc EXCEPT ![p] =
                                 IF found = NULL THEN "create" ELSE "enum2"]
                    /\ diag' = diag
    /\ creates' = [creates EXCEPT ![p] = 0]
    /\ UNCHANGED << dirExists, children, nextSeq, exists, ownerid, vector,
                    last_child, decision, held, rc, dirCreator, ord >>

\* lines 240-263: the first enumeration of an iteration and lookupnode
Enumerate1(p) ==
    /\ pc[p] = "lock"
    /\ \E r \in EnumResults(p) : Enum1Step(p, r)

\* lines 270-275: the create is not retried; the next iteration starts
AfterCreateFailed_Retry(p) ==
    /\ pc' = [pc EXCEPT ![p] = "create"]
    /\ UNCHANGED << count, diag >>

AfterCreateFailed(p) == Continue(p, count[p])

\* lines 263-277: the ephemeral sequential create of the candidate node
CreateNode(p) ==
    /\ pc[p] = "create"
    /\ \E a \in NodeCreateAnswers :
        LET name == SeqName(PrefixOf[p], nextSeq)
            retbuf == path \o << ChSlash >> \o name
        IN  /\ Fault(a[3])
            /\ IF a[2]
                   THEN /\ children' = children \cup {name}
                        /\ nextSeq' = nextSeq + 1
                   ELSE UNCHANGED << children, nextSeq >>
            /\ IF a[1] # "ZOK"
                   THEN /\ AfterCreateFailed(p)
                        /\ UNCHANGED << id, resolved >>
                   ELSE /\ id' = [id EXCEPT ![p] = getName(retbuf)]
                        /\ resolved' = [resolved EXCEPT ![p] = "created"]
                        /\ pc' = [pc EXCEPT ![p] = "enum2"]
                        /\ UNCHANGED << count, diag >>
    /\ Called(p, 1)
    /\ creates' = [creates EXCEPT ![p] = @ + 1]
    /\ UNCHANGED << dirExists, exists, ownerid, vector, last_child,
                    decision, held, rc, dirCreator, ord >>

\* line 309: the ownership check before the lock is held
IsOwner_Unchecked(myid, owner) == TRUE

IsOwner(myid, owner) ==
    ~ (myid = NULL \/ owner = NULL \/ strcmp(myid, owner) # 0)

\* line 294: a blocked run leaves through exitnow
AfterBlocked_Retry == "lock"

AfterBlocked == "exitnow"

\* lines 279-313: the second enumeration, the sort, child_floor and the
\* decision; on "i got the lock" also the retry check and the ownership check
Enumerate2(p) ==
    /\ pc[p] = "enum2"
    /\ \E r \in EnumResults(p) :
            /\ Fault(r[3])
            /\ lateCalls' = [lateCalls EXCEPT ![p] = @ + r[2]]
            /\ IF ~ r[1]
                   THEN /\ Continue(p, count[p])
                        /\ UNCHANGED << ownerid, vector, last_child, decision,
                                        held, rc >>
                   ELSE \E sorted \in { sort_children(v) : v \in Perms(children) } :
                        LET lessthanme == child_floor(sorted, id[p])
                        IN  IF sorted = << >>
                            THEN \* vector->data[0] of an empty vector: the read
                                 \* faults and the process dies
                                 /\ pc' = [pc EXCEPT ![p] = "done"]
                                 /\ rc' = [rc EXCEPT ![p] = 139]
                                 /\ UNCHANGED << ownerid, vector, last_child,
                                                 decision, held, count, diag >>
                            ELSE
                             /\ vector' = [vector EXCEPT ![p] = sorted]
                             /\ ownerid' = [ownerid EXCEPT ![p] = sorted[1]]
                             /\ count' = count
                             /\ rc' = rc
                             /\ IF lessthanme # NULL
                                 THEN /\ last_child' = [last_child EXCEPT ![p] =
                                             path \o << ChSlash >> \o lessthanme]
                                      /\ decision' = [decision EXCEPT ![p] = "Blocked"]
                                      /\ pc' = [pc EXCEPT ![p] = AfterBlocked]
                                      /\ UNCHANGED << diag, held >>
                                 ELSE /\ decision' = [decision EXCEPT ![p] = "Locked"]
                                      /\ last_child' = last_child
                                      /\ IF count[p] >= maxretry
                                          THEN /\ diag' = [diag EXCEPT ![p] = "Too many retries"]
                                               /\ pc' = [pc EXCEPT ![p] = "exitnow"]
                                               /\ held' = held
                                          ELSE /\ diag' = diag
                                               /\ IF IsOwner(id[p], sorted[1])
                                                   THEN /\ pc' = [pc EXCEPT ![p] = "holding"]
                                                        /\ held' = [held EXCEPT ![p] = TRUE]
                                                   ELSE /\ pc' = [pc EXCEPT ![p] = "exitnow"]
                                                        /\ held' = held
    /\ UNCHANGED creates
    /\ UNCHANGED << dirExists, children, nextSeq, exists, id, resolved,
                    dirCreator, ord >>

\* line 313: sleep(10) ends
Release(p) ==
    /\ pc[p] = "holding"
    /\ pc' = [pc EXCEPT ![p] = "exitnow"]
    /\ UNCHANGED << dirExists, children, nextSeq, exists, count, id, ownerid,
                    vector, last_child, diag, decision, held, rc, resolved,
                    lateCalls, dirCreator, budget, ord, creates >>

\* lines 315-317: zookeeper_close ends the session, the store removes the
\* session's ephemeral nodes, main returns 0
Close(p) ==
    /\ pc[p] = "exitnow"
    /\ children' = children \ NodesOf(p)
    /\ pc' = [pc EXCEPT ![p] = "done"]
    /\ rc' = [rc EXCEPT ![p] = ExitCode]
    /\ UNCHANGED << dirExists, nextSeq, exists, count, id, ownerid, vector,
                    last_child, diag, decision, held, resolved, lateCalls,
                    dirCreator, budget, ord, creates >>

\* the process outside the model ends its session: the store removes its
\* ephemeral node
OtherCloses ==
    /\ OtherNode \in children
    /\ children' = children \ {OtherNode}
    /\ UNCHANGED << dirExists, nextSeq, pc, exists, count, id, ownerid, vector,
                    last_child, diag, decision, held, rc, resolved, lateCalls,
                    dirCreator, budget, ord, creates >>

Next ==
    \/ \E p \in Procs :
        \/ Start(p)
        \/ BootExists(p)
        \/ BootCreate(p)
        \/ Enumerate1(p)
        \/ CreateNode(p)
        \/ Enumerate2(p)
        \/ Release(p)
        \/ Close(p)
    \/ OtherCloses

Spec == Init /\ [][Next]_vars

\* the steps of process p: main() runs from line 198 to its return; every
\* store call returns and every sleep ends
Proc(p) ==
    \/ Start(p)
    \/ BootExists(p)
    \/ BootCreate(p)
    \/ Enumerate1(p)
    \/ CreateNode(p)
    \/ Enumerate2(p)
    \/ Release(p)
    \/ Close(p)

\* one process racing nobody: the other process is never started
Solo == CHOOSE p \in Procs : TRUE

InitFair == InitWith(FairFaults) /\ ord = OrdOff

NextSolo == Proc(Solo) \/ OtherCloses

\* main() of a process that keeps running until it returns
FairSpec == InitFair /\ [][NextSolo]_vars /\ WF_vars(Proc(Solo))

----------------------------------------------------------------------------
(* main() against a store that is never reached by zoo_get_children *)

\* the answers to one retry_getchildren when every zoo_get_children call
\* is answered ZCONNECTIONLOSS
LostAnswers == [i \in 1..maxretry |-> "ZCONNECTIONLOSS"]

\* what becomes of that enumeration, in the form of EnumResults; the loss
\* is the store's only behaviour and is not drawn from the failure budget
LostResult(p) ==
    LET res == retry_getchildren(LostAnswers, maxretry)
    IN  << res.ret = "ZOK", IF decision[p] = "none" THEN 0 ELSE res.ncalls, 0 >>

\* lines 240-259 when every zoo_get_children call is lost
EnumLost(p) ==
    /\ pc[p] = "lock"
    /\ Enum1Step(p, LostResult(p))

NextLoss ==
    \/ \E p \in Procs :
        \/ Start(p)
        \/ BootExists(p)
        \/ BootCreate(p)
        \/ EnumLost(p)
        \/ Close(p)
    \/ OtherCloses

SpecLoss == Init /\ [][NextLoss]_vars

----------------------------------------------------------------------------
(* sort_children and child_floor on their own *)

\* candidate names: a session prefix and a sequence suffix of SeqWidth digits
OrdNames ==
    { SeqName(PrefixOf[p], q) :
        p \in Procs \cup {Other}, q \in (StartSeq - 1)..(StartSeq + 2) }

\* the child vectors: at most MaxOrdLen names with distinct sequence
\* suffixes, in any order
OrdVectors ==
    { v \in UNION { [1..n -> OrdNames] : n \in 1..MaxOrdLen } :
        \A i, j \in 1..Len(v) : i # j => vstrcmp(v[i], v[j]) # 0 }

InitOrd ==
    /\ InitMain
    /\ ~ dirExists
    /\ \E v \in OrdVectors :
        ord = [stage |-> "input", v |-> v, sorted |-> << >>, floors |-> << >>]

\* line 286: sort_children(vector)
OrdSort ==
    /\ ord.stage = "input"
    /\ ord' = [ord EXCEPT !.stage = "sorted", !.sorted = sort_children(ord.v)]
    /\ UNCHANGED mainvars

\* line 288: child_floor(vector->data, vector->count, id), for every id of
\* the vector
OrdFloor ==
    /\ ord.stage = "sorted"
    /\ ord' = [ord EXCEPT !.stage = "floored",
                          !.floors = [i \in 1..Len(ord.sorted) |->
                                         child_floor(ord.sorted, ord.sorted[i])]]
    /\ UNCHANGED mainvars

NextOrd == OrdSort \/ OrdFloor

SpecOrd == InitOrd /\ [][NextOrd]_vars

----------------------------------------------------------------------------
(* vstrcmp on its own, on suffixes of one width *)

\* the widths of the suffix: one digit, two digits, the store's width
PadWidths == {1, 2, SeqWidth}

\* sequence numbers around the carries, up to the largest counter of the
\* store
PadCarries ==
    {99, 100, 999, 1000, 99999, 100000, 999999999, 1000000000, 2147483647}

RECURSIVE Pow10(_)
Pow10(w) == IF w = 0 THEN 1 ELSE 10 * Pow10(w - 1)

\* the sequence numbers of [0, 10^w) that are tried
PadValues(w) ==
    { n \in (0..MaxPadVal) \cup PadCarries : w >= SeqWidth \/ n < Pow10(w) }

InitPad ==
    /\ InitMain
    /\ ~ dirExists
    /\ \E w \in PadWidths :
        \E a, b \in PadValues(w) :
            \E p, q \in Procs :
                ord = [stage |-> "input", a |-> a, b |-> b,
                       na |-> PrefixOf[p] \o FormatDec(a, w),
                       nb |-> PrefixOf[q] \o FormatDec(b, w),
                       cmp |-> 0]

\* line 79: one comparison made by qsort
PadCompare ==
    /\ ord.stage = "input"
    /\ ord' = [ord EXCEPT !.stage = "compared", !.cmp = vstrcmp(ord.na, ord.nb)]
    /\ UNCHANGED mainvars

NextPad == PadCompare

SpecPad == InitPad /\ [][NextPad]_vars

----------------------------------------------------------------------------
(* retry_getchildren on its own *)

\* the results of zoo_get_children
ChildrenResults == {"ZOK", "ZCONNECTIONLOSS", "ZNOAUTH"}

\* the store's answers to one call more than retry_getchildren may make
RetryAnswers == [1..(maxretry + 1) -> ChildrenResults]

InitRetry ==
    /\ InitMain
    /\ ~ dirExists
    /\ \E resp \in RetryAnswers :
        ord = [stage |-> "input", resp |-> resp, ret |-> "", ncalls |-> 0]

\* lines 254 and 279: retry_getchildren(zh, path, vector, ts, maxretry)
RetryCall ==
    /\ ord.stage = "input"
    /\ LET res == retry_getchildren(ord.resp, maxretry)
       IN  ord' = [ord EXCEPT !.stage = "returned", !.ret = res.ret,
                              !.ncalls = res.ncalls]
    /\ UNCHANGED mainvars

NextRetry == RetryCall

SpecRetry == InitRetry /\ [][NextRetry]_vars

----------------------------------------------------------------------------
(* Properties *)

\* the processes that hold the lock: past the ownership check of line 309,
\* before zookeeper_close
Holders == { p \in Procs : pc[p] = "holding" }

\* the name printed after "LOCKED: <path>/"
Printed(p) == getName(last_child[p])

\* the positions of the decision snapshot whose name strcmp puts below the
\* run's own candidate
Below(p) == { i \in 1..Len(vector[p]) : strcmp(vector[p][i], id[p]) < 0 }

\* the run's candidate has the lowest sequence suffix of its decision snapshot
HasLowestSeq(p) ==
    \A i \in 1..Len(vector[p]) : vstrcmp(id[p], vector[p][i]) <= 0

\* the decision snapshot is ordered by full name as it is by sequence suffix
NameOrderAgrees(p) ==
    \A i, j \in 1..Len(vector[p]) :
        i < j => strcmp(vector[p][i], vector[p][j]) < 0

\* the bootstrap of p is over
BootDone(p) == pc[p] \notin {"start", "bootloop"}

\* a step of p in which retry_getchildren returned an error (lines 255 and
\* 280): the first enumeration of an iteration that leads to neither the
\* create nor the second enumeration, or the second enumeration left without
\* a decision
EnumFailedStep(p) ==
    \/ /\ pc[p] = "lock"
       /\ count'[p] = count[p] + 1
       /\ pc'[p] \notin {"create", "enum2"}
    \/ /\ pc[p] = "enum2"
       /\ pc'[p] \in {"lock", "exitnow"}
       /\ decision'[p] = "none"

\* an upper bound on the steps main() has left: 3 after the lock loop
\* (sleep, zookeeper_close, return), 3 for each iteration of the lock loop
\* not yet begun, and one for each bootstrap attempt not yet made
StepsLeft(p) ==
    LET loop(c) == 3 + 3 * (maxretry - c)
    IN  CASE pc[p] = "start"    -> loop(0) + maxretry + 2
          [] pc[p] = "bootloop" -> loop(0) + (maxretry - count[p]) + 1
          [] pc[p] = "lock"     -> loop(count[p])
          [] pc[p] = "create"   -> loop(count[p]) + 2
          [] pc[p] = "enum2"    -> loop(count[p]) + 1
          [] pc[p] = "holding"  -> 2
          [] pc[p] = "exitnow"  -> 1
          [] pc[p] = "done"     -> 0

\* the outcomes a run has reported
OutcomesOf(p) ==
    { o \in {"held", "blocked", "could not create", "too many retries"} :
        \/ o = "held" /\ held[p]
        \/ o = "blocked" /\ last_child[p] # NULL
        \/ o = "could not create" /\ diag[p] = "Could not create"
        \/ o = "too many retries" /\ diag[p] = "Too many retries" }

\* C1: mutual exclusion. Under every interleaving of the store calls and
\* every pattern of failures, at most one process is in the lock-holding
\* state, and none is while the lower candidate node of a live session
\* outside the model is still in LockPath.
C1_MutualExclusion ==
    Cardinality(Holders) + (IF OtherNode \in children THEN 1 ELSE 0) <= 1

\* C1 witness: one process holds the lock while the other, having raced for
\* it, was blocked
C1_Witness ==
    \E p, q \in Procs :
        /\ p # q
        /\ pc[p] = "holding"
        /\ decision[q] = "Blocked"
        /\ id[p] \in children

\* C2: lowest sequence number wins. A run whose own candidate has the
\* lowest sequence suffix of its decision snapshot decides Locked, never
\* Blocked, whatever the session prefixes are.
C2_LowestSequenceWins ==
    \A p \in Procs :
        (decision[p] # "none" /\ HasLowestSeq(p)) => decision[p] = "Locked"

\* C3: single winner. In a sorted vector of names with distinct sequence
\* suffixes exactly one name has no floor, and it is the first element of
\* the sorted vector.
C3_SingleWinner ==
    ord.stage = "floored" =>
        /\ Cardinality({ i \in DOMAIN ord.floors : ord.floors[i] = NULL }) = 1
        /\ ord.floors[1] = NULL

\* C4 as claimed: a blocked run prints the minimum-sequence element of its
\* decision snapshot, for every snapshot of two or more candidates; taken
\* here on the snapshots that full names order as sequence suffixes do.
C4_ReportsHolder ==
    \A p \in Procs :
        (decision[p] = "Blocked" /\ Len(vector[p]) >= 2 /\ NameOrderAgrees(p))
            => Printed(p) = vector[p][1]

\* C4 as amended: a blocked run prints the floor of its own candidate: the
\* element of its decision snapshot, other than its own, that comes last in
\* sequence order among the names strcmp puts below its own name.
C4_ReportsFloor ==
    \A p \in Procs :
        decision[p] = "Blocked" =>
            \E i \in Below(p) :
                /\ Printed(p) = vector[p][i]
                /\ Printed(p) # id[p]
                /\ \A j \in Below(p) : j <= i

\* C4 witness: a run blocked on a snapshot of three candidates prints a name
\* that is not the minimum
C4_Witness ==
    \E p \in Procs :
        /\ decision[p] = "Blocked"
        /\ Len(vector[p]) = 3
        /\ NameOrderAgrees(p)
        /\ Printed(p) = vector[p][2]

\* C5: directory idempotence under race. Once a create call has made
\* LockPath, a process whose bootstrap ends on a successful result (ZOK, or
\* ZNODEEXISTS from its own create) is Ready: it does not report "Could not
\* create".
C5_DirectoryIdempotence ==
    \A p \in Procs :
        (dirCreator # 0 /\ BootDone(p) /\ exists[p] \in {"ZOK", "ZNODEEXISTS"})
            => diag[p] # "Could not create"

\* C6: at most one live candidate per session. LockPath never holds two
\* children with the prefix of one session, whatever creates failed or were
\* applied although reported as failed.
C6_OneCandidatePerSession ==
    \A p \in Procs : Cardinality(NodesOf(p)) <= 1

\* C6 witness: a create was applied but reported as failed (the node exists,
\* id is NULL) and the process is about to start its next iteration
C6_Witness ==
    \E p \in Procs :
        /\ pc[p] = "lock"
        /\ count[p] >= 1
        /\ id[p] = NULL
        /\ NodesOf(p) # {}

\* C7: idempotent registration. Whenever the enumeration of an iteration
\* succeeds while LockPath holds a node with the session's prefix, the
\* resolve step sets id to that node, goes on to the second enumeration
\* without a create call, and leaves the children and the sequence counter
\* of the store as they are; so it does every time the step is repeated.
C7_IdempotentRegistration ==
    [][ \A p \in Procs :
          (pc[p] = "lock" /\ NodesOf(p) # {} /\ pc'[p] \in {"create", "enum2"})
              => /\ pc'[p] = "enum2"
                 /\ id'[p] \in NodesOf(p)
                 /\ children' = children
                 /\ nextSeq' = nextSeq ]_vars

\* C7 witness: in a second or later iteration, the resolve step has reused
\* the node that an earlier iteration registered
C7_Witness ==
    \E p \in Procs :
        /\ pc[p] = "enum2"
        /\ count[p] >= 2
        /\ resolved[p] = "reused"
        /\ id[p] \in children

\* C8: Locked is terminal. A Locked decision in any iteration, the fifth
\* included, is never reported as "Too many retries", and the run whose node
\* is the owner of the snapshot goes on to hold the lock.
C8_LockedIsTerminal ==
    \A p \in Procs :
        decision[p] = "Locked" =>
            /\ diag[p] # "Too many retries"
            /\ IsOwner(id[p], ownerid[p]) => held[p]

\* C9: a run that has exited has reported exactly one of the four outcomes.
C9_OneOutcome ==
    \A p \in Procs : pc[p] = "done" => Cardinality(OutcomesOf(p)) = 1

\* C10: Blocked is terminal and does not wait. A run that has decided
\* Blocked is at exitnow or has exited, has issued no store call since the
\* decision, has never held the lock, and once exited has closed its session
\* (its ephemeral node is gone) and returned 0.
C10_BlockedIsTerminal ==
    \A p \in Procs :
        decision[p] = "Blocked" =>
            /\ pc[p] \in {"exitnow", "done"}
            /\ lateCalls[p] = 0
            /\ ~ held[p]
            /\ pc[p] = "done" => (rc[p] = 0 /\ NodesOf(p) = {})

\* C10 witness: a blocked run has exited while the process that blocked it
\* still holds the lock
C10_Witness ==
    \E p, q \in Procs :
        /\ decision[p] = "Blocked"
        /\ pc[p] = "done"
        /\ pc[q] = "holding"

\* C11: when every zoo_get_children call of a run is answered
\* ZCONNECTIONLOSS, the run never has a candidate node, never decides and
\* never holds the lock, and a run that got past the bootstrap ends with
\* "Too many retries" after exactly maxretry iterations of the lock loop.
C11_ExhaustedWhenLost ==
    \A p \in Procs :
        /\ id[p] = NULL /\ resolved[p] = "none" /\ NodesOf(p) = {}
        /\ decision[p] = "none" /\ ~ held[p] /\ pc[p] # "holding"
        /\ creates[p] = 0
        /\ pc[p] \in {"lock", "create", "enum2"} => count[p] < maxretry
        /\ (pc[p] \in {"exitnow", "done"} /\ diag[p] # "Could not create")
               => (diag[p] = "Too many retries" /\ count[p] = maxretry)

\* a run that entered the lock loop, lost every enumeration and has ended
C11_Witness ==
    \E p \in Procs :
        /\ pc[p] = "done" /\ diag[p] = "Too many retries"
        /\ count[p] = maxretry /\ exists[p] \in {"ZOK", "ZNODEEXISTS"}

\* C12: floor correctness. For a vector sorted by sequence suffix,
\* child_floor of the name at index i is the name at index i - 1, and NULL
\* exactly when i is the first index, also when the names carry different
\* session prefixes.
C12_FloorIsPredecessor ==
    ord.stage = "floored" =>
        \A i \in DOMAIN ord.floors :
            ord.floors[i] = IF i = 1 THEN NULL ELSE ord.sorted[i - 1]

\* C13: order stability under padding. On two names whose suffixes after
\* the last '-' are decimal numbers padded to the same width, vstrcmp is
\* negative, zero or positive exactly as the first number is below, equal
\* to or above the second, whatever the session prefixes are.
C13_PaddedOrderIsNumeric ==
    ord.stage = "compared" =>
        /\ (ord.cmp < 0) <=> (ord.a < ord.b)
        /\ (ord.cmp = 0) <=> (ord.a = ord.b)
        /\ (ord.cmp > 0) <=> (ord.a > ord.b)

\* two suffixes of the store's width across a carry, under session
\* prefixes that compare the other way
C13_Witness ==
    /\ ord.stage = "compared"
    /\ ord.a = 9 /\ ord.b = 10 /\ ord.cmp < 0
    /\ Len(ord.na) = Len(PrefixOf[1]) + SeqWidth
    /\ strcmp(ord.na, ord.nb) > 0

\* C14: the bootstrap reports "Could not create" only with its maxretry
\* attempts used up and the last result still unresolved: never after a
\* zoo_exists that answered ZOK or a zoo_create that answered ZOK or
\* ZNODEEXISTS, on any attempt, the last one included.
C14_FailedOnlyWhenUnresolved ==
    \A p \in Procs :
        diag[p] = "Could not create" =>
            /\ count[p] = maxretry
            /\ exists[p] \notin {"ZOK", "ZNODEEXISTS"}

\* C15: LockPath exists before any candidate registration is attempted.
\* Whenever a process is about to issue the zoo_create of its candidate
\* node, LockPath exists, whatever the zoo_exists and zoo_create calls of
\* its bootstrap answered; so does LockPath under every candidate node.
C15_DirectoryBeforeCandidate ==
    /\ \A p \in Procs : pc[p] = "create" => dirExists
    /\ children # {} => dirExists

\* a process whose bootstrap ended on a non-transient error is about to
\* create its candidate in the directory the other process made
C15_Witness ==
    \E p \in Procs :
        /\ pc[p] = "create"
        /\ exists[p] = "ZNOAUTH"
        /\ dirCreator \in Procs \ {p}

\* C16: the candidate create is not retried. A process issues at most one
\* zoo_create of a candidate within one iteration of the lock loop; a
\* create that reports failure ends the iteration with no decision and no
\* candidate taken, and a process comes to the create only from the first
\* enumeration of a new iteration whose lookup found no node of its session.
C16_CreateNotRetried ==
    /\ [](\A p \in Procs : creates[p] <= 1)
    /\ [][\A p \in Procs :
            /\ (pc[p] = "create" /\ pc'[p] # "create") =>
                  \/ /\ pc'[p] = "enum2"
                     /\ id'[p] # NULL /\ id'[p] \in children'
                     /\ creates'[p] = 1
                  \/ /\ pc'[p] \in {"lock", "exitnow"}
                     /\ id'[p] = NULL /\ decision'[p] = "none"
                     /\ creates'[p] = 1
                     /\ pc'[p] = "exitnow" <=> count[p] = maxretry
            /\ (pc[p] # "create" /\ pc'[p] = "create") =>
                  /\ pc[p] = "lock"
                  /\ count'[p] = count[p] + 1
                  /\ id'[p] = NULL /\ NodesOf(p) = {}
                  /\ creates'[p] = 0
            /\ pc[p] = "create" => creates[p] = 0]_vars

\* a create was applied by the store but reported failure: the iteration
\* has ended without a decision and the process is back at the enumeration
C16_Witness ==
    \E p \in Procs :
        /\ pc[p] = "lock"
        /\ creates[p] = 1
        /\ id[p] = NULL /\ decision[p] = "none"
        /\ NodesOf(p) # {}

\* C17: retry_getchildren makes at least one and at most maxretry
\* zoo_get_children calls, makes another call only after an answer of
\* ZCONNECTIONLOSS, returns the first other answer as soon as it is given,
\* and returns ZCONNECTIONLOSS after maxretry such answers.
C17_BoundedEnumerationRetry ==
    ord.stage = "returned" =>
        LET others == { i \in 1..maxretry : ord.resp[i] # "ZCONNECTIONLOSS" }
        IN  /\ ord.ncalls \in 1..maxretry
            /\ \A i \in 1..(ord.ncalls - 1) : ord.resp[i] = "ZCONNECTIONLOSS"
            /\ IF others # {}
                   THEN /\ \A i \in others : ord.ncalls <= i
                        /\ ord.ncalls \in others
                        /\ ord.ret = ord.resp[ord.ncalls]
                   ELSE /\ ord.ncalls = maxretry
                        /\ ord.ret = "ZCONNECTIONLOSS"

\* maxretry calls were lost and the call that would have succeeded was
\* never made
C17_Witness ==
    /\ ord.stage = "returned"
    /\ ord.ncalls = maxretry
    /\ ord.ret = "ZCONNECTIONLOSS"
    /\ ord.resp[maxretry + 1] = "ZOK"

\* C18 as claimed: an enumeration that ends with an error is fatal to the
\* run: the step leads to the exit.
C18_EnumerationFailureIsFatal ==
    [][\A p \in Procs : EnumFailedStep(p) => pc'[p] = "exitnow"]_vars

\* C18: an enumeration that ends with an error ends the iteration only. It
\* counts against the maxretry iterations of the lock loop: the run goes on
\* with the next iteration, and it ends with "Too many retries" only when
\* the failed iteration was the last one.
C18_EnumerationFailureEndsIteration ==
    [][\A p \in Procs : EnumFailedStep(p) =>
            /\ decision'[p] = "none" /\ ~ held'[p]
            /\ IF count'[p] < maxretry
                   THEN pc'[p] = "lock" /\ diag'[p] = ""
                   ELSE /\ pc'[p] = "exitnow"
                        /\ diag'[p] = "Too many retries"
                        /\ count'[p] = maxretry]_vars

\* a run decided Locked in a later iteration: its bootstrap ended on the
\* only failure of the behaviour, so the iteration it lost was lost to an
\* enumeration that answered ZNONODE before the other process made LockPath
C18_Witness ==
    \E p \in Procs :
        /\ decision[p] = "Locked"
        /\ count[p] >= 2
        /\ exists[p] = "ZNOAUTH"
        /\ budget = MaxFaults - 1
        /\ dirCreator \in Procs \ {p}

\* C19: every run terminates. The bootstrap and the lock loop make at most
\* maxretry iterations each, an iteration of the lock loop makes at most
\* one candidate create, every step of the process lowers the bound
\* StepsLeft on the steps it has left, and the process reaches its return,
\* with its session closed and no node of the session left.
C19_EveryRunTerminates ==
    /\ [](/\ count[Solo] \in 0..maxretry
          /\ creates[Solo] <= 1
          /\ StepsLeft(Solo) >= 0
          /\ pc[Solo] = "done" => NodesOf(Solo) = {})
    /\ [][<< pc[Solo], count[Solo] >> # << pc'[Solo], count'[Solo] >>
              => StepsLeft(Solo)' < StepsLeft(Solo)]_vars
    /\ <>(pc[Solo] = "done")

\* a run that met every failure the store may inject and used every
\* iteration of the lock loop has returned
C19_Witness ==
    /\ pc[Solo] = "done"
    /\ count[Solo] = maxretry
    /\ diag[Solo] = "Too many retries"
    /\ budget = 0

\* C20: whenever the bootstrap ends as Ready, that is the run goes on to
\* the lock loop without printing "Could not create", LockPath exists,
\* whatever zoo_exists and zoo_create answered.
C20_ReadyImpliesDirectory ==
    \A p \in Procs :
        (BootDone(p) /\ diag[p] # "Could not create") => dirExists

====
